---- MODULE Spec2Model ----
(***************************************************************************)
(* Model of the two verification scripts of skills/ember-best-practices:   *)
(*   verify_sections.py  - the catalog membership check                    *)
(*   final_verify.py     - the structural census                           *)
(* Both read the file AGENTS.md and print a report.                        *)
(*                                                                         *)
(* A document is a sequence of symbols.  A symbol is one character ("#",   *)
(* " ", "\n", "-", a digit, ...) or one whole phrase that the scripts only *)
(* ever look for as a unit (a rule title, "**Impact:**", "Table of         *)
(* Contents", ...).  No phrase used here is a substring of another one, so *)
(* substring search over symbols agrees with substring search over the     *)
(* characters they stand for.                                              *)
(***************************************************************************)
EXTENDS Integers, Sequences, FiniteSets, TLC

VARIABLES
    file,           \* contents of AGENTS.md on disk
    vpc,            \* verify_sections.py: position in the script
    vcontent,       \* verify_sections.py: content
    ci,             \* verify_sections.py: index of the current category
    ri,             \* verify_sections.py: index of the current rule
    total_rules,    \* verify_sections.py: total_rules
    vout,           \* verify_sections.py: lines printed by the current run
    vruns,          \* verify_sections.py: number of runs started
    vprev,          \* verify_sections.py: lines printed by the previous run
    fpc,            \* final_verify.py: position in the script
    fcontent,       \* final_verify.py: content
    fsections,      \* final_verify.py: len(sections)
    lines,          \* final_verify.py: lines
    fout,           \* final_verify.py: lines printed by the current run
    fruns,          \* final_verify.py: number of runs started
    fprev           \* final_verify.py: lines printed by the previous run

vvars == <<vpc, vcontent, ci, ri, total_rules, vout, vruns, vprev>>
fvars == <<fpc, fcontent, fsections, lines, fout, fruns, fprev>>
vars == <<file, vvars, fvars>>

-----------------------------------------------------------------------------
(* Bounds of the model *)

\* most catalog headings that deviate from "## <title>" in a generated document
MaxAltered == 1
\* most lines of a generated census document
MaxLines == 3
\* most runs of one script over the same file
MaxRuns == 2

-----------------------------------------------------------------------------
(* Strings *)

NL == "\n"

\* needle in s  (Python: needle in s)
Contains(s, needle) ==
    \E i \in 1..(Len(s) - Len(needle) + 1) :
        SubSeq(s, i, i + Len(needle) - 1) = needle

RECURSIVE Concat(_)
\* the concatenation of a sequence of sequences
Concat(ss) == IF ss = <<>> THEN <<>> ELSE Head(ss) \o Concat(Tail(ss))

\* one printed line
Line(tag, text, n) == [tag |-> tag, text |-> text, n |-> n]

-----------------------------------------------------------------------------
(* verify_sections.py *)

\* the catalog, in declared order
sections == <<
    [prefix |-> "route", rules |-> <<
        "Use Route-Based Code Splitting",
        "Use Loading Substates for Better UX",
        "Parallel Data Loading in Model Hooks">>],
    [prefix |-> "bundle", rules |-> <<
        "Avoid Importing Entire Addon Namespaces",
        "Use Embroider Static Mode",
        "Lazy Load Heavy Dependencies">>],
    [prefix |-> "component", rules |-> <<
        "Use @cached for Expensive Getters",
        "Avoid Unnecessary Tracking",
        "Use Tracked Toolbox for Complex State",
        "Use Glimmer Components Over Classic Components">>],
    [prefix |-> "a11y", rules |-> <<
        "Use ember-a11y-testing for Automated Checks",
        "Form Labels and Error Announcements",
        "Keyboard Navigation Support",
        "Announce Route Transitions to Screen Readers",
        "Semantic HTML and ARIA Attributes">>],
    [prefix |-> "service", rules |-> <<
        "Cache API Responses in Services",
        "Optimize Ember Data Queries",
        "Use Services for Shared State">>],
    [prefix |-> "template", rules |-> <<
        "Avoid Heavy Computation in Templates",
        "Use {{#each}} with @key for Lists",
        "Use {{#let}} to Avoid Recomputation">>],
    [prefix |-> "advanced", rules |-> <<
        "Use Helpers for Template Logic",
        "Use Modifiers for DOM Side Effects">> ] >>

\* prefix.upper()
Upper(prefix) ==
    CASE prefix = "route" -> "ROUTE"
      [] prefix = "bundle" -> "BUNDLE"
      [] prefix = "component" -> "COMPONENT"
      [] prefix = "a11y" -> "A11Y"
      [] prefix = "service" -> "SERVICE"
      [] prefix = "template" -> "TEMPLATE"
      [] prefix = "advanced" -> "ADVANCED"

\* f"## {rule}"
Heading(rule) == <<"#", "#", " ", rule>>

\* mutant: the "## " prefix left out of the search (rule in content)
RuleFound_TitleOnly(rule, content) == Contains(content, <<rule>>)

\* f"## {rule}" in content
RuleFound(rule, content) == Contains(content, Heading(rule))

\* the category after category c, or the end of the loop
AfterCategory(c) == IF c < Len(sections) THEN "category" ELSE "finish"

\* mutant: the file opened in mode "w+", which empties it
VRead_Truncating ==
    /\ vpc = "start"
    /\ file' = <<>>
    /\ vcontent' = <<>>
    /\ vout' = <<Line("title", "Verifying all rules are present in AGENTS.md:", 0),
                 Line("bar", "=", 60)>>
    /\ total_rules' = 0
    /\ ci' = 1
    /\ ri' = 1
    /\ vpc' = IF Len(sections) > 0 THEN "category" ELSE "finish"
    /\ UNCHANGED <<vruns, vprev, fvars>>

\* lines 13-19: read the file, print the title, total_rules = 0
VRead ==
    /\ vpc = "start"
    /\ vcontent' = file
    /\ vout' = <<Line("title", "Verifying all rules are present in AGENTS.md:", 0),
                 Line("bar", "=", 60)>>
    /\ total_rules' = 0
    /\ ci' = 1
    /\ ri' = 1
    /\ vpc' = IF Len(sections) > 0 THEN "category" ELSE "finish"
    /\ UNCHANGED <<file, vruns, vprev, fvars>>

\* lines 20-21: enter a category and print its header
VCategory ==
    /\ vpc = "category"
    /\ vout' = Append(vout, Line("category", Upper(sections[ci].prefix),
                                 Len(sections[ci].rules)))
    /\ ri' = 1
    /\ IF Len(sections[ci].rules) > 0
          THEN /\ vpc' = "rule"
               /\ ci' = ci
          ELSE /\ vpc' = AfterCategory(ci)
               /\ ci' = ci + 1
    /\ UNCHANGED <<file, vcontent, total_rules, vruns, vprev, fvars>>

\* mutant: total_rules += 1 dedented out of the inner loop, so that it runs
\* once per category
VRule_CountPerCategory ==
    /\ vpc = "rule"
    /\ LET rule == sections[ci].rules[ri] IN
         IF RuleFound(rule, vcontent)
            THEN vout' = Append(vout, Line("found", rule, 0))
            ELSE vout' = Append(vout, Line("missing", rule, 0))
    /\ IF ri < Len(sections[ci].rules)
          THEN /\ ri' = ri + 1
               /\ ci' = ci
               /\ vpc' = "rule"
               /\ total_rules' = total_rules
          ELSE /\ ri' = 1
               /\ ci' = ci + 1
               /\ vpc' = AfterCategory(ci)
               /\ total_rules' = total_rules + 1
    /\ UNCHANGED <<file, vcontent, vruns, vprev, fvars>>

\* mutant: a break in the else branch, so that a miss ends the inner loop
VRule_BreakOnMiss ==
    /\ vpc = "rule"
    /\ LET rule == sections[ci].rules[ri] IN
         IF RuleFound(rule, vcontent)
            THEN /\ vout' = Append(vout, Line("found", rule, 0))
                 /\ total_rules' = total_rules + 1
                 /\ IF ri < Len(sections[ci].rules)
                       THEN /\ ri' = ri + 1
                            /\ ci' = ci
                            /\ vpc' = "rule"
                       ELSE /\ ri' = 1
                            /\ ci' = ci + 1
                            /\ vpc' = AfterCategory(ci)
            ELSE /\ vout' = Append(vout, Line("missing", rule, 0))
                 /\ total_rules' = total_rules
                 /\ ri' = 1
                 /\ ci' = ci + 1
                 /\ vpc' = AfterCategory(ci)
    /\ UNCHANGED <<file, vcontent, vruns, vprev, fvars>>

\* lines 22-27: one iteration of the inner loop
VRule ==
    /\ vpc = "rule"
    /\ LET rule == sections[ci].rules[ri] IN
         IF RuleFound(rule, vcontent)
            THEN /\ vout' = Append(vout, Line("found", rule, 0))
                 /\ total_rules' = total_rules + 1
            ELSE /\ vout' = Append(vout, Line("missing", rule, 0))
                 /\ total_rules' = total_rules
    /\ IF ri < Len(sections[ci].rules)
          THEN /\ ri' = ri + 1
               /\ ci' = ci
               /\ vpc' = "rule"
          ELSE /\ ri' = 1
               /\ ci' = ci + 1
               /\ vpc' = AfterCategory(ci)
    /\ UNCHANGED <<file, vcontent, vruns, vprev, fvars>>

\* lines 29-30: print the total
VFinish ==
    /\ vpc = "finish"
    /\ vout' = vout \o <<Line("bar", "=", 60),
                         Line("total", "/23", total_rules)>>
    /\ vpc' = "done"
    /\ UNCHANGED <<file, vcontent, ci, ri, total_rules, vruns, vprev, fvars>>

\* the script is run again over the same file
VRerun ==
    /\ vpc = "done"
    /\ vruns < MaxRuns
    /\ vruns' = vruns + 1
    /\ vprev' = vout
    /\ vpc' = "start"
    /\ UNCHANGED <<file, vcontent, ci, ri, total_rules, vout, fvars>>

VNext == VRead \/ VCategory \/ VRule \/ VFinish

-----------------------------------------------------------------------------
(* Documents for the catalog membership check *)

\* all rule titles, in declared order
AllRules == Concat([c \in 1..Len(sections) |-> sections[c].rules])

\* ways the heading of a title can differ from the single line "## <title>"
AlterKinds == {"absent", "trailing", "deeper", "spaced", "shallower", "twice"}

\* the heading line written for a title
HeadingLine(rule, kind) ==
    CASE kind = "exact"     -> <<"#", "#", " ", rule, NL>>
      [] kind = "absent"    -> <<>>
      [] kind = "trailing"  -> <<"#", "#", " ", rule, "!", NL>>
      [] kind = "deeper"    -> <<"#", "#", "#", " ", rule, NL>>
      [] kind = "spaced"    -> <<"#", "#", " ", " ", rule, NL>>
      [] kind = "shallower" -> <<"#", " ", rule, NL>>
      [] kind = "twice"     -> <<"#", "#", " ", rule, NL, "#", "#", " ", rule, NL>>

RECURSIVE SubsetsUpTo(_, _)
\* the subsets of S with at most k elements
SubsetsUpTo(S, k) ==
    IF k = 0 THEN {{}}
    ELSE LET P == SubsetsUpTo(S, k - 1)
         IN  P \cup {T \cup {x} : T \in P, x \in S}

\* the document that renders every title, the titles of D as alt says
CatalogDoc(D, alt) ==
    Concat([i \in 1..Len(AllRules) |->
              HeadingLine(AllRules[i], IF i \in D THEN alt[i] ELSE "exact")])

CatalogDocs ==
    {<<>>} \cup
    UNION {{CatalogDoc(D, alt) : alt \in [D -> AlterKinds]} :
              D \in SubsetsUpTo(1..Len(AllRules), MaxAltered)}

-----------------------------------------------------------------------------
(* final_verify.py *)

Digits == {"0", "1", "2", "3", "4", "5", "6", "7", "8", "9"}

\* ^ under re.MULTILINE: the start of the text or just after a newline
AtLineStart(s, i) == i = 1 \/ s[i - 1] = NL

\* $ under re.MULTILINE: the end of the text or just before a newline
AtLineEnd(s, i) == i = Len(s) + 1 \/ (i <= Len(s) /\ s[i] = NL)

\* "## \d\. " matches s at i
NumberedAt(s, i) ==
    /\ i + 5 <= Len(s)
    /\ s[i] = "#" /\ s[i + 1] = "#" /\ s[i + 2] = " "
    /\ s[i + 3] \in Digits
    /\ s[i + 4] = "." /\ s[i + 5] = " "

\* len(re.findall(pattern, s)): the number of matches found scanning left to
\* right, resuming after each match; ends[i] is the position after the match of
\* the pattern at i, or 0 when it does not match there
FindAllCount(ends) ==
    LET n[i \in 1..(Len(ends) + 1)] ==
            IF i > Len(ends) THEN 0
            ELSE IF ends[i] > 0 THEN 1 + n[ends[i]] ELSE n[i + 1]
    IN  n[1]

\* mutant: re.MULTILINE left out, so that ^ is the start of the text only
SectionMatchEnd_NoMultiline(s, i) ==
    IF i = 1 /\ NumberedAt(s, i) THEN i + 6 ELSE 0

\* r'^## \d\. ' with re.MULTILINE
SectionMatchEnd(s, i) ==
    IF AtLineStart(s, i) /\ NumberedAt(s, i) THEN i + 6 ELSE 0

\* r'^## ' with re.MULTILINE
HeaderMatchEnd(s, i) ==
    IF /\ AtLineStart(s, i)
       /\ i + 2 <= Len(s)
       /\ s[i] = "#" /\ s[i + 1] = "#" /\ s[i + 2] = " "
    THEN i + 3 ELSE 0

\* "\n\n\*\*Impact:\*\*" matches s at j
ImpactAt(s, j) ==
    /\ j + 2 <= Len(s)
    /\ s[j] = NL /\ s[j + 1] = NL /\ s[j + 2] = "**Impact:**"

\* r'## \d\. .+?\n\n\*\*Impact:\*\*' with re.MULTILINE | re.DOTALL:
\* .+? takes at least one character, newlines included, and as few as possible
MetadataMatchEnd(s, i) ==
    LET J == {j \in (i + 7)..Len(s) : ImpactAt(s, j)}
    IN  IF NumberedAt(s, i) /\ J # {}
           THEN (CHOOSE j \in J : \A k \in J : j <= k) + 3
           ELSE 0

\* mutant: the closing $ left out (r'^---')
RuleMatchEnd_NoEnd(s, i) ==
    IF /\ AtLineStart(s, i)
       /\ i + 2 <= Len(s)
       /\ s[i] = "-" /\ s[i + 1] = "-" /\ s[i + 2] = "-"
    THEN i + 3 ELSE 0

\* r'^---$' with re.MULTILINE
RuleMatchEnd(s, i) ==
    IF /\ AtLineStart(s, i)
       /\ i + 2 <= Len(s)
       /\ s[i] = "-" /\ s[i + 1] = "-" /\ s[i + 2] = "-"
       /\ AtLineEnd(s, i + 3)
    THEN i + 3 ELSE 0

\* mutant: the comparison made on lowercased text
\* ("## table of contents" in content.lower())
TocPresent_IgnoreCase(content) ==
    Contains([i \in 1..Len(content) |->
                 IF content[i] = "Table of Contents" THEN "table of contents"
                 ELSE content[i]],
             <<"#", "#", " ", "table of contents">>)

\* "## Table of Contents" in content
TocPresent(content) == Contains(content, <<"#", "#", " ", "Table of Contents">>)

\* mutant: the Date label left out of the condition
MetadataPresent_TwoLabels(content) ==
    /\ Contains(content, <<"**Version:**">>)
    /\ Contains(content, <<"**Organization:**">>)

\* "**Version:**" in content and "**Organization:**" in content and "**Date:**" in content
MetadataPresent(content) ==
    /\ Contains(content, <<"**Version:**">>)
    /\ Contains(content, <<"**Organization:**">>)
    /\ Contains(content, <<"**Date:**">>)

\* "## Abstract" in content
AbstractPresent(content) == Contains(content, <<"#", "#", " ", "Abstract">>)

\* content.count('\n')
CountNewlines(content) == Cardinality({i \in 1..Len(content) : content[i] = NL})

RECURSIVE RStrip(_)
\* s.rstrip()
RStrip(s) ==
    IF s # <<>> /\ s[Len(s)] \in {" ", NL, "\t"}
       THEN RStrip(SubSeq(s, 1, Len(s) - 1))
       ELSE s

\* s[-n:]
LastN(s, n) == IF Len(s) <= n THEN s ELSE SubSeq(s, Len(s) - n + 1, Len(s))

\* content.rstrip().endswith(']') or 'Reference:' in content[-200:]
EndsProperly(content) ==
    \/ (RStrip(content) # <<>> /\ RStrip(content)[Len(RStrip(content))] = "]")
    \/ Contains(LastN(content, 200), <<"Reference:">>)

\* mutant: the summary prints the counted sections instead of the fixed 7
Banner_CountedSections(nlines) == <<
    Line("complete", "AGENTS.md file is complete and well-formed!", 0),
    Line("summary", "Summary:", 0),
    Line("summary_sections", "main sections", fsections),
    Line("summary_rules", "23 rules total", 0),
    Line("summary_lines", "lines", nlines),
    Line("summary_format", "All rules properly formatted and organized", 0) >>

\* lines 43-48: the closing lines
Banner(nlines) == <<
    Line("complete", "AGENTS.md file is complete and well-formed!", 0),
    Line("summary", "Summary:", 0),
    Line("summary_sections", "7 main sections", 0),
    Line("summary_rules", "23 rules total", 0),
    Line("summary_lines", "lines", nlines),
    Line("summary_format", "All rules properly formatted and organized", 0) >>

\* lines 3-4: read the file
FRead ==
    /\ fpc = "start"
    /\ fcontent' = file
    /\ fout' = <<>>
    /\ fsections' = 0
    /\ lines' = 0
    /\ fpc' = "sections"
    /\ UNCHANGED <<file, fruns, fprev, vvars>>

\* lines 7-8: count the main sections
FSections ==
    /\ fpc = "sections"
    /\ fsections' = FindAllCount([i \in 1..Len(fcontent) |-> SectionMatchEnd(fcontent, i)])
    /\ fout' = Append(fout, Line("sections", "Number of main sections", fsections'))
    /\ fpc' = "headers"
    /\ UNCHANGED <<file, fcontent, lines, fruns, fprev, vvars>>

\* lines 11-12: count all headers
FHeaders ==
    /\ fpc = "headers"
    /\ fout' = Append(fout, Line("headers", "Total headers (##)",
                                 FindAllCount([i \in 1..Len(fcontent) |-> HeaderMatchEnd(fcontent, i)])))
    /\ fpc' = "toc"
    /\ UNCHANGED <<file, fcontent, fsections, lines, fruns, fprev, vvars>>

\* lines 15-16: the table of contents
FToc ==
    /\ fpc = "toc"
    /\ fout' = IF TocPresent(fcontent)
                  THEN Append(fout, Line("toc", "Table of Contents present", 0))
                  ELSE fout
    /\ fpc' = "metadata"
    /\ UNCHANGED <<file, fcontent, fsections, lines, fruns, fprev, vvars>>

\* lines 19-20: the header metadata
FMetadata ==
    /\ fpc = "metadata"
    /\ fout' = IF MetadataPresent(fcontent)
                  THEN Append(fout, Line("metadata",
                          "Header metadata present (Version, Organization, Date)", 0))
                  ELSE fout
    /\ fpc' = "abstract"
    /\ UNCHANGED <<file, fcontent, fsections, lines, fruns, fprev, vvars>>

\* lines 23-24: the abstract
FAbstract ==
    /\ fpc = "abstract"
    /\ fout' = IF AbstractPresent(fcontent)
                  THEN Append(fout, Line("abstract", "Abstract present", 0))
                  ELSE fout
    /\ fpc' = "with_metadata"
    /\ UNCHANGED <<file, fcontent, fsections, lines, fruns, fprev, vvars>>

\* lines 27-29: the sections with metadata
FWithMetadata ==
    /\ fpc = "with_metadata"
    /\ fout' = Append(fout, Line("with_metadata", "Sections with metadata: /7",
                                 FindAllCount([i \in 1..Len(fcontent) |-> MetadataMatchEnd(fcontent, i)])))
    /\ fpc' = "rules"
    /\ UNCHANGED <<file, fcontent, fsections, lines, fruns, fprev, vvars>>

\* lines 32-33: the horizontal rules
FRules ==
    /\ fpc = "rules"
    /\ fout' = Append(fout, Line("horizontal_rules", "Horizontal rule separators",
                                 FindAllCount([i \in 1..Len(fcontent) |-> RuleMatchEnd(fcontent, i)])))
    /\ fpc' = "lines"
    /\ UNCHANGED <<file, fcontent, fsections, lines, fruns, fprev, vvars>>

\* lines 36-37: the line count
FLines ==
    /\ fpc = "lines"
    /\ lines' = CountNewlines(fcontent)
    /\ fout' = Append(fout, Line("lines", "Total lines", lines'))
    /\ fpc' = "ending"
    /\ UNCHANGED <<file, fcontent, fsections, fruns, fprev, vvars>>

\* lines 40-41: the ending
FEnding ==
    /\ fpc = "ending"
    /\ fout' = IF EndsProperly(fcontent)
                  THEN Append(fout, Line("ending", "File ends with proper content", 0))
                  ELSE fout
    /\ fpc' = "banner"
    /\ UNCHANGED <<file, fcontent, fsections, lines, fruns, fprev, vvars>>

\* lines 43-48: the closing banner and the summary
FBanner ==
    /\ fpc = "banner"
    /\ fout' = fout \o Banner(lines)
    /\ fpc' = "done"
    /\ UNCHANGED <<file, fcontent, fsections, lines, fruns, fprev, vvars>>

\* the script is run again over the same file
FRerun ==
    /\ fpc = "done"
    /\ fruns < MaxRuns
    /\ fruns' = fruns + 1
    /\ fprev' = fout
    /\ fpc' = "start"
    /\ UNCHANGED <<file, fcontent, fsections, lines, fout, vvars>>

FNext ==
    \/ FRead \/ FSections \/ FHeaders \/ FToc \/ FMetadata \/ FAbstract
    \/ FWithMetadata \/ FRules \/ FLines \/ FEnding \/ FBanner

-----------------------------------------------------------------------------
(* Documents for the structural census *)

RECURSIVE JoinLines(_)
\* the lines of ls, a newline between consecutive ones
JoinLines(ls) ==
    IF ls = <<>> THEN <<>>
    ELSE IF Len(ls) = 1 THEN ls[1]
    ELSE ls[1] \o <<NL>> \o JoinLines(Tail(ls))

\* the documents of at most n lines drawn from Pool, with and without a final newline
DocsFrom(Pool, n) ==
    UNION {{JoinLines(ls) \o (IF nl THEN <<NL>> ELSE <<>>) :
               ls \in [1..k -> Pool], nl \in BOOLEAN} : k \in 0..n}

HeadingPool == {
    <<"#", "#", " ", "1", ".", " ", "Route Loading">>,
    <<"#", "#", "#", " ", "1", ".", " ", "Route Loading">>,
    <<"#", "#", " ", "1", "2", ".", " ", "Route Loading">>,
    <<"#", "#", " ", "Abstract">>,
    <<>>,
    <<"**Impact:**", " ", "CRITICAL">> }

RulePool == {
    <<"-", "-", "-">>,
    <<"-", "-", "-", "-">>,
    <<"-", "-", "-", " ">>,
    <<" ", "-", "-", "-">>,
    <<"-", "-">>,
    <<>> }

MarkerPool == {
    <<"**Version:**", " ", "1", ".", "0">>,
    <<"**Organization:**", " ", "Ember">>,
    <<"**Date:**", " ", "2", "0", "2", "6">>,
    <<"#", "#", " ", "Table of Contents">>,
    <<"#", "#", " ", "table of contents">>,
    <<"#", "#", " ", "1", ".", " ", "Route Loading">>,
    <<"Reference:", " ", "[", "guides", "]">> }

BothPool == {
    <<"#", "#", " ", "Use Embroider Static Mode">>,
    <<"#", "#", " ", "1", ".", " ", "Route Loading">>,
    <<"-", "-", "-">>,
    <<"#", "#", " ", "Table of Contents">> }

-----------------------------------------------------------------------------
(* Specifications *)

InitWith(Docs) ==
    /\ file \in Docs
    /\ vpc = "start" /\ vcontent = <<>> /\ ci = 1 /\ ri = 1 /\ total_rules = 0
    /\ vout = <<>> /\ vruns = 1 /\ vprev = <<>>
    /\ fpc = "start" /\ fcontent = <<>> /\ fsections = 0 /\ lines = 0
    /\ fout = <<>> /\ fruns = 1 /\ fprev = <<>>

InitCatalog == InitWith(CatalogDocs)
InitHeadings == InitWith(DocsFrom(HeadingPool, MaxLines + 1))
InitRules == InitWith(DocsFrom(RulePool, MaxLines))
InitMarkers == InitWith(DocsFrom(MarkerPool, MaxLines))
InitBoth == InitWith(DocsFrom(BothPool, MaxLines - 1))

NextBoth == VNext \/ VRerun \/ FNext \/ FRerun

\* verify_sections.py over generated catalog documents
SpecCatalog == InitCatalog /\ [][VNext]_vars
\* final_verify.py over documents of headings, blank lines and Impact lines
SpecHeadings == InitHeadings /\ [][FNext]_vars
\* final_verify.py over documents of dash lines
SpecRules == InitRules /\ [][FNext]_vars
\* final_verify.py over documents of marker lines; the script runs to its end
SpecMarkers == InitMarkers /\ [][FNext]_vars /\ WF_vars(FNext)
\* both scripts, each run repeatedly, in any interleaving
SpecBoth == InitBoth /\ [][NextBoth]_vars

-----------------------------------------------------------------------------
(* What a report says, and what a document holds, line by line *)

\* the lines of s: the pieces between its newlines
SplitLines(s) ==
    LET breaks == {i \in 1..Len(s) : s[i] = NL}
        nth(k) == CHOOSE p \in breaks : Cardinality({q \in breaks : q <= p}) = k
        first(k) == IF k = 1 THEN 1 ELSE nth(k - 1) + 1
        last(k) == IF k = Cardinality(breaks) + 1 THEN Len(s) ELSE nth(k) - 1
    IN  [k \in 1..(Cardinality(breaks) + 1) |-> SubSeq(s, first(k), last(k))]

\* the numbers reported on the lines of out tagged tag
Reported(out, tag) == {out[k].n : k \in {m \in 1..Len(out) : out[m].tag = tag}}

\* how many lines of out are tagged tag
Emitted(out, tag) == Cardinality({k \in 1..Len(out) : out[k].tag = tag})

\* the found and MISSING lines of out, in order
RuleLines(out) == SelectSeq(out, LAMBDA l : l.tag \in {"found", "missing"})

\* the category lines of out, in order
CategoryLines(out) == SelectSeq(out, LAMBDA l : l.tag = "category")

\* the census has passed the step named pc
FPast(pc) ==
    LET order == <<"start", "sections", "headers", "toc", "metadata", "abstract",
                   "with_metadata", "rules", "lines", "ending", "banner", "done">>
        pos(x) == CHOOSE k \in 1..Len(order) : order[k] = x
    IN  pos(fpc) > pos(pc)

\* a line that begins with "## ", one digit, a period and a space
IsNumberedLine(l) ==
    /\ Len(l) >= 6
    /\ SubSeq(l, 1, 3) = <<"#", "#", " ">>
    /\ l[4] \in Digits
    /\ SubSeq(l, 5, 6) = <<".", " ">>

\* symbol x occurs on some line of ls
OnSomeLine(ls, x) == \E k \in 1..Len(ls) : \E m \in 1..Len(ls[k]) : ls[k][m] = x

\* some line of ls is exactly "## <rule>"
ExactLine(ls, rule) == \E k \in 1..Len(ls) : ls[k] = <<"#", "#", " ", rule>>

\* some line of ls holds the phrase with "## " right before it
HeadedLine(ls, phrase) ==
    \E k \in 1..Len(ls) : \E m \in 4..Len(ls[k]) :
        /\ ls[k][m] = phrase
        /\ ls[k][m - 1] = " "
        /\ ls[k][m - 2] = "#"
        /\ ls[k][m - 3] = "#"

\* the titles whose heading is not rendered in ls as the line "## <title>"
NotExact(ls) == {i \in 1..Len(AllRules) : ~ExactLine(ls, AllRules[i])}

\* the i-th title is reported with mark tag
Marked(i, tag) ==
    /\ Len(RuleLines(vout)) >= i
    /\ RuleLines(vout)[i] = Line(tag, AllRules[i], 0)

-----------------------------------------------------------------------------
(* Claims *)

\* C1 as stated: when exactly one title's heading is textually altered and
\* every other title appears as "## <title>", the altered title is reported
\* MISSING and not counted, and every other title is reported found.
C1_AlteredReportedMissing ==
    vpc = "done" =>
        LET ls == SplitLines(file)
            altered == NotExact(ls)
        IN  (Cardinality(altered) = 1 /\ \A i \in altered : OnSomeLine(ls, AllRules[i]))
            => /\ \A i \in altered : Marked(i, "missing")
               /\ \A i \in (1..Len(AllRules)) \ altered : Marked(i, "found")
               /\ total_rules = Len(AllRules) - 1

\* C1 amended: the altered title is reported MISSING and not counted exactly
\* when the alteration leaves no "## " directly before the title text (a space
\* inserted, a "#" dropped); when "## <title>" still occurs (a character
\* appended after the title, a "#" added in front) it is reported found and
\* counted.  Every other title is reported found.
C1_AlteredBeforeTitleMissing ==
    vpc = "done" =>
        LET ls == SplitLines(file)
            altered == NotExact(ls)
        IN  (Cardinality(altered) = 1 /\ \A i \in altered : OnSomeLine(ls, AllRules[i]))
            => /\ \A i \in altered :
                     IF HeadedLine(ls, AllRules[i])
                        THEN Marked(i, "found") /\ total_rules = Len(AllRules)
                        ELSE Marked(i, "missing") /\ total_rules = Len(AllRules) - 1
               /\ \A i \in (1..Len(AllRules)) \ altered : Marked(i, "found")

C1_Witness ==
    /\ vpc = "done"
    /\ Emitted(vout, "missing") = 1
    /\ total_rules = 22
    /\ LET ls == SplitLines(file)
            altered == NotExact(ls)
       IN  /\ Cardinality(altered) = 1
           /\ \A i \in altered : OnSomeLine(ls, AllRules[i]) /\ ~HeadedLine(ls, AllRules[i])

\* C2: the reported number of main sections is the number of lines of the
\* document that begin with "## ", one digit, a period and a space.
C2_MainSectionCount ==
    FPast("sections") =>
        /\ Reported(fout, "sections") = {Cardinality({k \in 1..Len(SplitLines(file)) : IsNumberedLine(SplitLines(file)[k])})}
        /\ Emitted(fout, "sections") = 1

C2_Witness ==
    /\ FPast("sections")
    /\ Reported(fout, "sections") = {2}
    /\ LET ls == SplitLines(file)
       IN  /\ Len(ls) = 4
           /\ \E k \in 1..Len(ls) : ls[k] # <<>> /\ ~IsNumberedLine(ls[k])

\* C3: on a document that holds every title as a line "## <title>", the final
\* count is the number of titles of the catalog, which is the printed 23, and
\* no MISSING line is printed.
C3_CompleteDocument ==
    (vpc = "done" /\ NotExact(SplitLines(file)) = {})
    => /\ total_rules = Len(AllRules)
       /\ vout[Len(vout)] = Line("total", "/23", 23)
       /\ Emitted(vout, "missing") = 0
       /\ Emitted(vout, "found") = 23

C3_Witness ==
    /\ vpc = "done"
    /\ total_rules = 23
    /\ NotExact(SplitLines(file)) = {}
    /\ Len(SplitLines(file)) > Len(AllRules) + 1

\* C4: the header metadata line is printed if and only if the three labels
\* Version, Organization and Date all occur in the document.
C4_MetadataAllThree ==
    FPast("metadata") =>
        LET ls == SplitLines(file)
        IN  /\ Emitted(fout, "metadata") = 1
                   <=> /\ OnSomeLine(ls, "**Version:**")
                       /\ OnSomeLine(ls, "**Organization:**")
                       /\ OnSomeLine(ls, "**Date:**")
            /\ Emitted(fout, "metadata") <= 1

C4_Witness ==
    /\ FPast("metadata")
    /\ OnSomeLine(SplitLines(file), "**Version:**")
    /\ OnSomeLine(SplitLines(file), "**Organization:**")
    /\ ~OnSomeLine(SplitLines(file), "**Date:**")
    /\ Emitted(fout, "metadata") = 0

\* C5: the table of contents line is printed if and only if the marker
\* "## Table of Contents" occurs in the document with exactly that
\* capitalization.
C5_TocVerbatim ==
    FPast("toc") =>
        /\ Emitted(fout, "toc") = 1 <=> HeadedLine(SplitLines(file), "Table of Contents")
        /\ Emitted(fout, "toc") <= 1

C5_Witness ==
    /\ FPast("toc")
    /\ OnSomeLine(SplitLines(file), "table of contents")
    /\ ~OnSomeLine(SplitLines(file), "Table of Contents")
    /\ Emitted(fout, "toc") = 0

\* C6: a second run of either script over the same file prints the lines the
\* first run printed, whatever the other script does meanwhile, and no step of
\* either script changes the file.
C6_Idempotent ==
    /\ []((vruns > 1 /\ vpc = "done") => vout = vprev)
    /\ []((fruns > 1 /\ fpc = "done") => fout = fprev)
    /\ [][file' = file]_vars

C6_Witness ==
    /\ vruns > 1 /\ vpc = "done" /\ vout = vprev
    /\ fruns > 1 /\ fpc = "done" /\ fout = fprev
    /\ Emitted(vout, "found") = 1
    /\ Emitted(fout, "toc") = 1

\* C7: the reported number of horizontal rules is the number of lines of the
\* document that are exactly "---".
C7_HorizontalRuleCount ==
    FPast("rules") =>
        /\ Reported(fout, "horizontal_rules") =
               {Cardinality({k \in 1..Len(SplitLines(file)) :
                                SplitLines(file)[k] = <<"-", "-", "-">>})}
        /\ Emitted(fout, "horizontal_rules") = 1

C7_Witness ==
    /\ FPast("rules")
    /\ Reported(fout, "horizontal_rules") = {2}
    /\ \E k \in 1..Len(SplitLines(file)) : SplitLines(file)[k] = <<"-", "-", "-", "-">>

\* the numbered headings followed by one blank line and then an Impact line
AdjacentSections(ls) ==
    {k \in 1..(Len(ls) - 2) :
        /\ IsNumberedLine(ls[k])
        /\ ls[k + 1] = <<>>
        /\ ls[k + 2] # <<>>
        /\ ls[k + 2][1] = "**Impact:**"}

\* C8 as stated: the reported number of sections with metadata is the number
\* of numbered headings directly followed by one blank line and the Impact
\* marker, and it never exceeds the number of main sections.
C8_AdjacentSectionsCounted ==
    FPast("with_metadata") =>
        /\ Reported(fout, "with_metadata") = {Cardinality(AdjacentSections(SplitLines(file)))}
        /\ \A n \in Reported(fout, "with_metadata") : n <= fsections

\* C9: every title is examined once, in declared order, and gets one found or
\* MISSING line; the counter is the number of found lines so far; a miss does
\* not end the scan.
C9_TotalAndOrdered ==
    LET rl == RuleLines(vout)
        cl == CategoryLines(vout)
    IN  /\ Len(rl) <= Len(AllRules)
        /\ \A k \in 1..Len(rl) : rl[k].text = AllRules[k]
        /\ Len(cl) <= Len(sections)
        /\ \A c \in 1..Len(cl) : cl[c].text = Upper(sections[c].prefix)
        /\ total_rules = Emitted(vout, "found")
        /\ total_rules \in 0..23
        /\ vpc = "done" =>
              /\ Len(rl) = Len(AllRules)
              /\ Len(cl) = Len(sections)
              /\ vout[Len(vout)] = Line("total", "/23", Emitted(vout, "found"))

C9_Witness ==
    /\ vpc = "done"
    /\ RuleLines(vout)[1].tag = "missing"
    /\ RuleLines(vout)[Len(AllRules)].tag = "found"
    /\ total_rules = 22

\* the last lines of the census report are the banner and the fixed summary
ClosingLines ==
    /\ Len(fout) >= 6
    /\ SubSeq(fout, Len(fout) - 5, Len(fout)) = <<
          Line("complete", "AGENTS.md file is complete and well-formed!", 0),
          Line("summary", "Summary:", 0),
          Line("summary_sections", "7 main sections", 0),
          Line("summary_rules", "23 rules total", 0),
          Line("summary_lines", "lines", Cardinality({i \in 1..Len(file) : file[i] = NL})),
          Line("summary_format", "All rules properly formatted and organized", 0) >>

\* C10: every run of the census reaches its end, and at its end the report
\* closes with the banner and the summary naming 7 main sections and 23 rules,
\* whatever was found.
C10_ClosingBanner ==
    /\ <>(fpc = "done")
    /\ [](fpc = "done" => ClosingLines)

C10_Witness ==
    /\ fpc = "done"
    /\ ClosingLines
    /\ fsections = 1
    /\ Emitted(fout, "toc") = 0
    /\ Emitted(fout, "metadata") = 0
    /\ Emitted(fout, "ending") = 0

====
